---- MODULE Spec2Model ----
(***************************************************************************)
(* Booking lifecycle and rating aggregation of the prime-care marketplace. *)
(*                                                                         *)
(* The document store holds the collections "bookings" and                 *)
(* "providerProfiles" ("providerApplications" is reduced to the review     *)
(* status of each provider's application).  Customer pages (BookClient)    *)
(* create bookings and rate them inside a store transaction; provider      *)
(* dashboards (ProviderDashboardPage) change booking status with a plain   *)
(* update and merge-write the provider profile on every application        *)
(* snapshot.                                                               *)
(*                                                                         *)
(* Ratings are kept in hundredths (4.00 is 400) so that toFixed(2) is an   *)
(* integer rounding.                                                       *)
(***************************************************************************)
EXTENDS Integers, Sequences, FiniteSets, TLC

\* ------------------------------------------------------------------ bounds
\* Number of booking documents the model lets submitBooking create.
MaxBookings == 2
\* Attempts runTransaction makes before it gives up on a stale read set.
MaxTxnAttempts == 2
\* Number of ratings folded into one profile in the fold specification.
MaxRatings == 7

\* ------------------------------------------------------------ identities
Customers == {"c1", "c2"}
Providers == {"p1", "p2", "p3"}
\* The provider accounts that sign in on the dashboards of the model.
DashUsers == {"p1", "p2"}
NoUser == "none"

\* Customer pages and provider dashboards open at the same time.
RateSessions == {"r1", "r2"}
DashSessions == {"d1", "d2"}

BookingIds == 1..MaxBookings

\* The star buttons of BookClient offer 1..5; the whole-program
\* specification draws the clicked value from RatingChoices.
Ratings == 1..5
RatingChoices == {3, 5}

NoDoc == [exists |-> FALSE]

\* The service catalog of the booking page (the provider application form
\* offers the same six).
services ==
    {"Home Cleaning", "Plumbing & Repairs", "Electrical Work",
     "Caregiving", "Handyman", "Outdoor Care"}

\* Name and service on a provider's latest application, which the dashboard
\* copies into the profile.
AppliedName == "n1"
AppliedService == "Home Cleaning"

\* What a provider types into the profile form.
ProfileNames == {"n1", "n2"}
ProfileBios == {"b1"}
ProfileServiceChoices == {{"Handyman", "Outdoor Care"}}
AvailabilityFields == {"acceptingBookings", "isOnline"}

\* Messages thrown inside the rateProvider transaction.
ErrBookingNotFound == "Booking not found."
ErrNotAllowed == "You are not allowed to rate this booking."
ErrNotCompleted == "You can only rate completed bookings."
ErrAlreadyRated == "Booking already rated."
ErrProfileNotFound == "Provider profile not found."
\* Stands for the message of a rejection that is not one of the throws above:
\* runTransaction giving up after its attempts (the catch block shows the
\* rejection's own message, or this fallback when it carries none).
ErrAborted == "Unable to submit rating."
NoError == "null"

\* Writes the two onboarding pages issue in one run.
MaxWrites == 3

VARIABLES
    bookings,       \* collection "bookings": id -> document or NoDoc
    profiles,       \* collection "providerProfiles": provider uid -> document or NoDoc
    applications,   \* review status of each provider's application
    rate,           \* per customer page: session user and the rateProvider call in flight
    dash,           \* per provider dashboard: React state and listeners
    fold,           \* the running average of the fold specification
    forms,          \* the provider sign-up page and the provider application page
    onboarding      \* their writes: issued, in flight, stored

vars == <<bookings, profiles, applications, rate, dash, fold, forms, onboarding>>

\* ------------------------------------------------------- rating arithmetic
\* Number(x.toFixed(2)) of the quotient num/den, in hundredths: the nearest
\* hundredth, a tie going to the larger one.  num is already in hundredths.
ToFixed2(num, den) == (2 * num + den) \div (2 * den)

\* nextAverage of rateProvider: (currentAverage * currentCount + rating) / nextCount,
\* stored as Number(nextAverage.toFixed(2)).
NextAverage(currentAverage, currentCount, rating) ==
    ToFixed2(currentAverage * currentCount + 100 * rating, currentCount + 1)

\* ------------------------------------------------------------- documents
\* Role stored in users/{uid} by the sign-up flows.
UserRole(u) == IF u \in Customers THEN "customer" ELSE "provider"

\* displayName and email of the signed-in account (c2 has set neither).
AuthDisplayName(u) == IF u = "c1" THEN "Ann" ELSE ""
AuthEmail(u) == IF u = "c1" THEN "ann@example.com" ELSE ""

\* The document addDoc writes in submitBooking: provider is the selected entry of
\* the providers list, w the wizard's form state.
NewBooking(customer, provider, w) ==
    [exists |-> TRUE, customerUid |-> customer,
     customerName |-> IF AuthDisplayName(customer) # ""
                      THEN AuthDisplayName(customer) ELSE "Customer",
     customerEmail |-> AuthEmail(customer),
     providerUid |-> provider.id, providerName |-> provider.displayName,
     service |-> w.service, date |-> w.date, time |-> w.time,
     address |-> w.address,
     status |-> "requested", customerRating |-> 0, ratedAt |-> FALSE,
     providerUpdatedBy |-> NoUser]

\* Smallest id not yet used: addDoc always creates a fresh document.
FreshBookingId == CHOOSE b \in BookingIds :
    /\ ~bookings[b].exists
    /\ \A c \in BookingIds : c < b => bookings[c].exists

\* ------------------------------------------------------------- discovery
\* Boolean(data.field) of loadProviders: a missing field counts as false.
FlagOf(profile, field) ==
    field \in DOMAIN profile.flag /\ profile.flag[field]

\* The list entry loadProviders maps a providerProfiles document to.
ProviderEntry(id, profile) ==
    [id |-> id, displayName |-> profile.displayName,
     rating |-> profile.rating, reviewCount |-> profile.reviewCount,
     acceptingBookings |-> FlagOf(profile, "acceptingBookings"),
     isOnline |-> FlagOf(profile, "isOnline"),
     isApproved |-> FlagOf(profile, "isApproved")]

\* Document ids in the order a query without orderBy returns them.
ProviderOrder == <<"p1", "p2", "p3">>

\* snapshot.docs of where("services", "array-contains", service).
QueryDocs(store, service) ==
    SelectSeq(ProviderOrder,
              LAMBDA p : store[p].exists /\ service \in store[p].services)

\* The filter of loadProviders without the isOnline conjunct.
ListedIgnoringOnline(entry) == entry.isApproved /\ entry.acceptingBookings

\* The filter of loadProviders.
Listed(entry) == entry.isApproved /\ entry.isOnline /\ entry.acceptingBookings

\* A comparator that orders by rating only.
CompareEntriesByRating(a, b) == b.rating - a.rating

\* The comparator of loadProviders' sort (negative: a first).
CompareEntries(a, b) ==
    IF b.rating = a.rating THEN b.reviewCount - a.reviewCount
    ELSE b.rating - a.rating

\* One step of the stable sort: e goes behind every entry that does not have to
\* follow it.
InsertEntry(sorted, e) ==
    LET k == Cardinality({i \in 1..Len(sorted) : CompareEntries(sorted[i], e) <= 0})
    IN  SubSeq(sorted, 1, k) \o <<e>> \o SubSeq(sorted, k + 1, Len(sorted))

RECURSIVE SortEntries(_)
SortEntries(entries) ==
    IF entries = <<>> THEN <<>>
    ELSE InsertEntry(SortEntries(SubSeq(entries, 1, Len(entries) - 1)),
                     entries[Len(entries)])

\* nextProviders of loadProviders: map, filter, sort.
Discovery(store, service) ==
    LET docs == QueryDocs(store, service)
        entries == [i \in 1..Len(docs) |-> ProviderEntry(docs[i], store[docs[i]])]
    IN  SortEntries(SelectSeq(entries, Listed))

EntryIds(entries) == {entries[i].id : i \in 1..Len(entries)}

\* --------------------------------------------------- store transactions
\* A transaction has read a document once it is past the get of it; a write to
\* that document by anyone else makes its read set stale.
HasReadBooking(r, b) == r.call.pc \in {"getProvider", "commit"} /\ r.call.booking = b
HasReadProfile(r, p) == r.call.pc = "commit" /\ r.call.providerUid = p

\* The rate sessions after documents were written outside their transaction.
MarkStale(rt, writtenBookings, writtenProfiles) ==
    [s \in RateSessions |->
        IF \/ \E b \in writtenBookings : HasReadBooking(rt[s], b)
           \/ \E p \in writtenProfiles : HasReadProfile(rt[s], p)
        THEN [rt[s] EXCEPT !.call.stale = TRUE]
        ELSE rt[s]]

\* ------------------------------------------------------ customer page
\* The fields of one rateProvider call, cleared when no call is in flight.
NoCall == [pc |-> "idle", booking |-> 0, providerUid |-> NoUser,
           caller |-> NoUser, rating |-> 0,
           attempts |-> 0, stale |-> FALSE, currentCount |-> 0, currentAverage |-> 0]

\* The booking wizard of a page opened without ?service=: useState initial values.
\* loads holds the loadProviders calls in flight (service and selectedProviderId
\* as their closure captured them), submit the addDoc in flight.
InitWizard ==
    [step |-> 1, service |-> "", selectedProviderId |-> "",
     date |-> "", time |-> "", address |-> "",
     providers |-> <<>>, providersError |-> NoError, loads |-> {},
     submitStatus |-> "idle", submit |-> NoDoc]

InitRateSession ==
    [sessionUser |-> NoUser, sessionRole |-> "null", roleLookups |-> {},
     rateable |-> {}, ratingError |-> NoError, ratingLoadingId |-> 0,
     call |-> NoCall, wizard |-> InitWizard]

\* The effect on [sessionRole, sessionUser]: the list of the customer's bookings is
\* emptied unless a customer is signed in (otherwise it stays until the next
\* snapshot of the new query arrives).
BookingsEffect(user, role, shown) ==
    IF user = NoUser \/ role # "customer" THEN {} ELSE shown

\* onAuthStateChanged callback of BookClient up to its await: the user is stored;
\* for no user the role is cleared (and the bookings effect empties the list),
\* otherwise the users document is requested.
BookAuthChanged(s, u) ==
    /\ u # rate[s].sessionUser
    /\ rate' = [rate EXCEPT
          ![s].sessionUser = u,
          ![s].sessionRole = IF u = NoUser THEN "null" ELSE @,
          ![s].rateable = BookingsEffect(u, IF u = NoUser THEN "null"
                                               ELSE rate[s].sessionRole, @),
          ![s].roleLookups = IF u = NoUser THEN @ ELSE @ \cup {u}]
    /\ UNCHANGED <<bookings, profiles, applications, dash, fold, forms, onboarding>>

\* The rest of that callback, once getDoc(users/uid) has answered.
BookRoleLoaded(s, u) ==
    /\ u \in rate[s].roleLookups
    /\ rate' = [rate EXCEPT
          ![s].sessionRole = UserRole(u),
          ![s].roleLookups = @ \ {u},
          ![s].rateable = BookingsEffect(rate[s].sessionUser, UserRole(u), @)]
    /\ UNCHANGED <<bookings, profiles, applications, dash, fold, forms, onboarding>>

\* The bookings the "Rate provider" buttons are shown for: status completed and
\* no customerRating in the document as delivered.
Rateable(u) ==
    {b \in BookingIds : /\ bookings[b].exists
                        /\ bookings[b].customerUid = u
                        /\ bookings[b].status = "completed"
                        /\ bookings[b].customerRating = 0}

\* onSnapshot callback of the customer's bookings query (customerUid == uid).
CustomerBookingsSnapshot(s) ==
    /\ rate[s].sessionUser # NoUser
    /\ rate[s].sessionRole = "customer"
    /\ rate[s].rateable # Rateable(rate[s].sessionUser)
    /\ rate' = [rate EXCEPT ![s].rateable = Rateable(rate[s].sessionUser)]
    /\ UNCHANGED <<bookings, profiles, applications, dash, fold, forms, onboarding>>

\* ------------------------------------------------------ booking wizard
\* The effect on [service, selectedProviderId]: without a service the list and the
\* selection are cleared, otherwise loadProviders starts.
ProvidersEffect(w) ==
    IF w.service = ""
    THEN [w EXCEPT !.providers = <<>>, !.selectedProviderId = ""]
    ELSE [w EXCEPT !.providersError = NoError,
                   !.loads = @ \cup {[service |-> w.service,
                                      selected |-> w.selectedProviderId]}]

\* The wizard after a state change: the effect runs when a dependency changed.
AfterChange(old, new) ==
    IF new.service # old.service \/ new.selectedProviderId # old.selectedProviderId
    THEN ProvidersEffect(new)
    ELSE new

\* The wizard right after mount with ?service=preselected (or without it).
MountedWizard(preselected) ==
    ProvidersEffect([InitWizard EXCEPT !.service = preselected])

SetWizard(s, w) ==
    /\ rate' = [rate EXCEPT ![s].wizard = w]
    /\ UNCHANGED <<bookings, profiles, applications, dash, fold, forms, onboarding>>

\* Step 1: a click on a service card.
SelectService(s, item) ==
    LET w == rate[s].wizard
    IN  /\ w.step = 1
        /\ SetWizard(s, AfterChange(w, [w EXCEPT !.service = item]))

\* Step 2: a click on a provider of the loaded list.
SelectProvider(s, id) ==
    LET w == rate[s].wizard
    IN  /\ w.step = 2
        /\ id \in EntryIds(w.providers)
        /\ SetWizard(s, AfterChange(w, [w EXCEPT !.selectedProviderId = id]))

\* Step 3: the date and time inputs.
SetDate(s, value) ==
    /\ rate[s].wizard.step = 3
    /\ SetWizard(s, [rate[s].wizard EXCEPT !.date = value])

SetTime(s, value) ==
    /\ rate[s].wizard.step = 3
    /\ SetWizard(s, [rate[s].wizard EXCEPT !.time = value])

\* Step 4: the address input.
SetAddress(s, value) ==
    /\ rate[s].wizard.step = 4
    /\ SetWizard(s, [rate[s].wizard EXCEPT !.address = value])

\* canContinue without the step-3 case: date and time are not asked for.
canContinueSkippingDate(w) ==
    IF w.step = 1 THEN w.service # ""
    ELSE IF w.step = 2 THEN w.selectedProviderId # ""
    ELSE IF w.step = 4 THEN w.address # ""
    ELSE TRUE

canContinue(w) ==
    IF w.step = 1 THEN w.service # ""
    ELSE IF w.step = 2 THEN w.selectedProviderId # ""
    ELSE IF w.step = 3 THEN w.date # "" /\ w.time # ""
    ELSE IF w.step = 4 THEN w.address # ""
    ELSE TRUE

\* nextStep from the Continue button (rendered below step 5, disabled unless
\* canContinue).
nextStep(s) ==
    LET w == rate[s].wizard
    IN  /\ w.step < 5
        /\ canContinue(w)
        /\ SetWizard(s, [w EXCEPT !.step = IF @ + 1 > 5 THEN 5 ELSE @ + 1])

\* prevStep from the Back button (disabled at step 1).
prevStep(s) ==
    LET w == rate[s].wizard
    IN  /\ w.step # 1
        /\ SetWizard(s, [w EXCEPT !.step = IF @ - 1 < 1 THEN 1 ELSE @ - 1])

\* getDocs of a loadProviders call answers: the list is replaced, and the
\* selection too unless the id the call started with is in the new list.
LoadDone(s, l) ==
    LET w == rate[s].wizard
        nextProviders == Discovery(profiles, l.service)
    IN  /\ l \in w.loads
        /\ SetWizard(s, AfterChange(w,
              [w EXCEPT !.loads = @ \ {l},
                        !.providers = nextProviders,
                        !.selectedProviderId =
                            IF l.selected \in EntryIds(nextProviders) THEN @
                            ELSE IF nextProviders # <<>> THEN nextProviders[1].id
                            ELSE ""]))

ErrLoad == "Unable to load providers for this service."

\* getDocs of a loadProviders call rejects.
LoadFailed(s, l) ==
    LET w == rate[s].wizard
    IN  /\ l \in w.loads
        /\ SetWizard(s, AfterChange(w,
              [w EXCEPT !.loads = @ \ {l}, !.providersError = ErrLoad,
                        !.providers = <<>>, !.selectedProviderId = ""]))

\* What a customer types into the form ("" clears the input).
FormDates == {"", "2026-01-15"}
FormTimes == {"", "09:00"}
FormAddresses == {"", "1 Main Rd"}

\* selectedProvider: the entry of the providers list with the selected id, or
\* null (NoDoc).
selectedProvider(w) ==
    IF w.selectedProviderId \in EntryIds(w.providers)
    THEN [exists |-> TRUE,
          entry |-> w.providers[CHOOSE i \in 1..Len(w.providers) :
                          /\ w.providers[i].id = w.selectedProviderId
                          /\ \A j \in 1..(i - 1) :
                                w.providers[j].id # w.selectedProviderId]]
    ELSE NoDoc

\* The guard of submitBooking without the check of selectedProvider.
SubmitGuardNoProviderCheck(r) ==
    r.sessionUser # NoUser /\ r.sessionRole = "customer"

\* The guard of submitBooking: a signed-in user, role customer, a selected
\* provider.
SubmitGuard(r) ==
    /\ r.sessionUser # NoUser
    /\ r.sessionRole = "customer"
    /\ selectedProvider(r.wizard).exists

NoEntry == [id |-> "", displayName |-> ""]

\* submitBooking from the Submit button (rendered at step 5 for a signed-in user,
\* disabled while loading, after success and unless the role is customer).  When
\* its guard fails it returns and nothing changes; otherwise addDoc is issued.
\* submitBooking behind a button that is not disabled after a success.
submitBookingAgain(s) ==
    LET r == rate[s]
        w == r.wizard
        chosen == IF selectedProvider(w).exists THEN selectedProvider(w).entry
                  ELSE NoEntry
    IN  /\ w.step = 5
        /\ r.sessionUser # NoUser
        /\ w.submitStatus # "loading"
        /\ r.sessionRole = "customer"
        /\ SubmitGuard(r)
        /\ Cardinality({b \in BookingIds : bookings[b].exists})
             + Cardinality({t \in RateSessions : rate[t].wizard.submit.exists})
             < MaxBookings
        /\ SetWizard(s, [w EXCEPT !.submitStatus = "loading",
                                  !.submit = NewBooking(r.sessionUser, chosen, w)])

submitBooking(s) ==
    LET r == rate[s]
        w == r.wizard
        chosen == IF selectedProvider(w).exists THEN selectedProvider(w).entry
                  ELSE NoEntry
    IN  /\ w.step = 5
        /\ r.sessionUser # NoUser
        /\ w.submitStatus \notin {"loading", "success"}
        /\ r.sessionRole = "customer"
        /\ SubmitGuard(r)
        /\ Cardinality({b \in BookingIds : bookings[b].exists})
             + Cardinality({t \in RateSessions : rate[t].wizard.submit.exists})
             < MaxBookings
        /\ SetWizard(s, [w EXCEPT !.submitStatus = "loading",
                                  !.submit = NewBooking(r.sessionUser, chosen, w)])

\* addDoc resolves: the document is in the store.
SubmitCommitted(s) ==
    LET w == rate[s].wizard
    IN  /\ w.submit.exists
        /\ bookings' = [bookings EXCEPT ![FreshBookingId] = w.submit]
        /\ rate' = [rate EXCEPT ![s].wizard.submitStatus = "success",
                                ![s].wizard.submit = NoDoc]
        /\ UNCHANGED <<profiles, applications, dash, fold, forms, onboarding>>

\* addDoc rejects: nothing is stored.
SubmitFailed(s) ==
    LET w == rate[s].wizard
    IN  /\ w.submit.exists
        /\ SetWizard(s, [w EXCEPT !.submitStatus = "error", !.submit = NoDoc])

\* rateProvider up to runTransaction: a click on a star button of a booking shown
\* as rateable.  The session user is captured by the closure; providerUid is the
\* one of the shown copy, which is the stored one while the document exists.
rateProvider(s, b, r) ==
    /\ rate[s].call.pc = "idle"
    /\ rate[s].sessionUser # NoUser
    /\ b \in rate[s].rateable
    /\ rate' = [rate EXCEPT
          ![s].ratingLoadingId = b,
          ![s].ratingError = NoError,
          ![s].call = [NoCall EXCEPT !.pc = "getBooking", !.booking = b,
                          !.providerUid = IF bookings[b].exists
                                          THEN bookings[b].providerUid
                                          ELSE "p1",
                          !.caller = rate[s].sessionUser,
                          !.rating = r, !.attempts = 1]]
    /\ UNCHANGED <<bookings, profiles, applications, dash, fold, forms, onboarding>>

\* The session after its rateProvider call ended (catch and finally).
EndCall(r, error) ==
    [r EXCEPT !.ratingError = error, !.ratingLoadingId = 0, !.call = NoCall]

\* The booking guards without the check of customerRating.
BookingGuardNoRatedCheck(bookingSnap, caller) ==
    IF ~bookingSnap.exists THEN ErrBookingNotFound
    ELSE IF bookingSnap.customerUid # caller THEN ErrNotAllowed
    ELSE IF bookingSnap.status # "completed" THEN ErrNotCompleted
    ELSE NoError

\* The booking guards without the check of status.
BookingGuardNoStatusCheck(bookingSnap, caller) ==
    IF ~bookingSnap.exists THEN ErrBookingNotFound
    ELSE IF bookingSnap.customerUid # caller THEN ErrNotAllowed
    ELSE IF bookingSnap.customerRating # 0 THEN ErrAlreadyRated
    ELSE NoError

\* The booking guards without the check of customerUid.
BookingGuardNoCustomerCheck(bookingSnap, caller) ==
    IF ~bookingSnap.exists THEN ErrBookingNotFound
    ELSE IF bookingSnap.status # "completed" THEN ErrNotCompleted
    ELSE IF bookingSnap.customerRating # 0 THEN ErrAlreadyRated
    ELSE NoError

\* The booking guards with one message for "not completed" and "already rated".
BookingGuardSharedReason(bookingSnap, caller) ==
    IF ~bookingSnap.exists THEN ErrBookingNotFound
    ELSE IF bookingSnap.customerUid # caller THEN ErrNotAllowed
    ELSE IF bookingSnap.status # "completed" THEN ErrNotCompleted
    ELSE IF bookingSnap.customerRating # 0 THEN ErrNotCompleted
    ELSE NoError

\* The guard that fails for the booking document as read, or NoError.
BookingGuard(bookingSnap, caller) ==
    IF ~bookingSnap.exists THEN ErrBookingNotFound
    ELSE IF bookingSnap.customerUid # caller THEN ErrNotAllowed
    ELSE IF bookingSnap.status # "completed" THEN ErrNotCompleted
    ELSE IF bookingSnap.customerRating # 0 THEN ErrAlreadyRated
    ELSE NoError

\* transaction.get(bookingRef) and the guards on the booking.
TxnGetBooking(s) ==
    LET c == rate[s].call
        error == BookingGuard(bookings[c.booking], c.caller)
    IN  /\ c.pc = "getBooking"
        /\ rate' = [rate EXCEPT ![s] =
              IF error # NoError THEN EndCall(@, error)
              ELSE [@ EXCEPT !.call.pc = "getProvider", !.call.stale = FALSE]]
        /\ UNCHANGED <<bookings, profiles, applications, dash, fold, forms, onboarding>>

\* transaction.get(providerRef) and the guard on the profile.
TxnGetProvider(s) ==
    LET c == rate[s].call
        providerSnap == profiles[c.providerUid]
    IN  /\ c.pc = "getProvider"
        /\ rate' = [rate EXCEPT ![s] =
              IF ~providerSnap.exists THEN EndCall(@, ErrProfileNotFound)
              ELSE [@ EXCEPT !.call.pc = "commit",
                             !.call.currentCount = providerSnap.reviewCount,
                             !.call.currentAverage = providerSnap.rating]]
        /\ UNCHANGED <<bookings, profiles, applications, dash, fold, forms, onboarding>>

\* A transaction that leaves the profile as it is.
RatedProfileSkipped(profile, c) == profile

\* The profile document after transaction.update(providerRef, ...).
RatedProfile(profile, c) ==
    [profile EXCEPT
        !.rating = NextAverage(c.currentAverage, c.currentCount, c.rating),
        !.reviewCount = c.currentCount + 1]

\* A rating that also copies the provider's current displayName into the booking.
RatedBookingResynced(booking, c) ==
    [booking EXCEPT !.customerRating = c.rating, !.ratedAt = TRUE,
                    !.providerName = profiles[booking.providerUid].displayName]

\* The booking document after transaction.update(bookingRef, ...).
RatedBooking(booking, c) ==
    [booking EXCEPT !.customerRating = c.rating, !.ratedAt = TRUE]

\* A store that commits whatever was read (no check of the read set).
CanCommitUnchecked(c) == TRUE

\* Whether the store accepts the commit: no document read was written since.
CanCommit(c) == ~c.stale

\* The commit of the transaction: both updates are applied together.
TxnCommit(s) ==
    LET c == rate[s].call
    IN  /\ c.pc = "commit"
        /\ CanCommit(c)
        /\ profiles' = [profiles EXCEPT
              ![c.providerUid] = RatedProfile(@, c)]
        /\ bookings' = [bookings EXCEPT ![c.booking] = RatedBooking(@, c)]
        /\ rate' = [MarkStale(rate, {c.booking}, {c.providerUid})
                      EXCEPT ![s] = EndCall(rate[s], NoError)]
        /\ UNCHANGED <<applications, dash, fold, forms, onboarding>>

\* The store refuses the commit of a stale read set: runTransaction runs the
\* update function again, or rejects once its attempts are used up.
TxnRetry(s) ==
    LET c == rate[s].call
    IN  /\ c.pc = "commit"
        /\ ~CanCommit(c)
        /\ rate' = [rate EXCEPT ![s] =
              IF c.attempts < MaxTxnAttempts
              THEN [@ EXCEPT !.call.pc = "getBooking", !.call.stale = FALSE,
                             !.call.attempts = c.attempts + 1,
                             !.call.currentCount = 0, !.call.currentAverage = 0]
              ELSE EndCall(@, ErrAborted)]
        /\ UNCHANGED <<bookings, profiles, applications, dash, fold, forms, onboarding>>

\* ------------------------------------------------------------ admin console
\* Statuses the review buttons of the admin console set.
ReviewChoices == {"approved", "rejected"}

\* handleStatusChange: the admin sets the review status of an application (and
\* reviewedAt, so that pressing the button of the current status is a change
\* too); the store owes a snapshot to every listener on that provider's
\* applications.
handleStatusChange(p, nextStatus) ==
    /\ applications' = [applications EXCEPT ![p] = nextStatus]
    /\ dash' = [d \in DashSessions |->
          IF p \in dash[d].appsSubs
          THEN [dash[d] EXCEPT !.appsDue = @ \cup {p}]
          ELSE dash[d]]
    /\ UNCHANGED <<bookings, profiles, rate, fold, forms, onboarding>>

\* -------------------------------------------------------- provider dashboard
InitDashSession ==
    [page |-> "new", authUser |-> NoUser, userLookups |-> {},
     providerUid |-> NoUser, accessState |-> "checking",
     appsSubs |-> {}, unsubscribeApps |-> NoUser, appsDue |-> {},
     merges |-> {},
     profileSubs |-> {}, unsubscribeProfile |-> NoUser,
     bookingsSubs |-> {}, unsubscribeBookings |-> NoUser,
     bookingRequests |-> [b \in BookingIds |-> "absent"]]

\* Calling the unsubscribe handles of the profile and bookings listeners.
ReleaseProfileAndBookings(d) ==
    [d EXCEPT !.profileSubs = @ \ {d.unsubscribeProfile},
              !.unsubscribeProfile = NoUser,
              !.bookingsSubs = @ \ {d.unsubscribeBookings},
              !.unsubscribeBookings = NoUser]

\* Calling all three unsubscribe handles.
ReleaseAll(d) ==
    [ReleaseProfileAndBookings(d) EXCEPT
        !.appsSubs = @ \ {d.unsubscribeApps},
        !.appsDue = @ \ {d.unsubscribeApps},
        !.unsubscribeApps = NoUser]

\* The cleanup of the effect, run when the page is left (router.replace or
\* navigation): the handles held at that moment are released.
Cleanup(d) == [ReleaseAll(d) EXCEPT !.page = "closed"]

\* A provider opens the dashboard: the effect registers the auth listener, which
\* is called with the signed-in user and requests the users document.
DashOpen(d, u) ==
    /\ dash[d].page = "new"
    /\ dash' = [dash EXCEPT ![d].page = "mounted",
                            ![d].authUser = u,
                            ![d].userLookups = {u}]
    /\ UNCHANGED <<bookings, profiles, applications, rate, fold, forms, onboarding>>

\* onAuthStateChanged callback of the dashboard up to its await: the listeners
\* are released; without a user the page redirects to sign-in.
DashAuthChanged(d, u) ==
    /\ dash[d].page = "mounted"
    /\ u # dash[d].authUser
    /\ dash' = [dash EXCEPT ![d] =
          IF u = NoUser
          THEN Cleanup([@ EXCEPT !.authUser = u])
          ELSE [ReleaseAll(@) EXCEPT !.authUser = u, !.userLookups = @ \cup {u}]]
    /\ UNCHANGED <<bookings, profiles, applications, rate, fold, forms, onboarding>>

\* The rest of the auth callback once getDoc(users/uid) has answered: a provider
\* gets providerUid set and a listener on its applications.
DashUserLoaded(d, u) ==
    /\ u \in dash[d].userLookups
    /\ dash' = [dash EXCEPT ![d] =
          IF UserRole(u) # "provider"
          THEN Cleanup([@ EXCEPT !.userLookups = @ \ {u}])
          ELSE [@ EXCEPT !.userLookups = @ \ {u},
                         !.providerUid = u,
                         !.appsSubs = @ \cup {u},
                         !.appsDue = @ \cup {u},
                         !.unsubscribeApps = u]]
    /\ UNCHANGED <<bookings, profiles, applications, rate, fold, forms, onboarding>>

\* Snapshot callback of the applications listener up to its await (the first
\* snapshot of a new listener, or one owed after a change): the profile and
\* bookings listeners are released; without an approved application the
\* dashboard is blocked, otherwise the profile merge write is issued.  A
\* snapshot can arrive while an earlier callback still awaits its merge write.
AppsSnapshot(d, u) ==
    /\ u \in dash[d].appsSubs
    /\ u \in dash[d].appsDue
    /\ dash' = [dash EXCEPT ![d] =
          IF applications[u] # "approved"
          THEN [ReleaseProfileAndBookings(@) EXCEPT !.accessState = "blocked",
                                                    !.appsDue = @ \ {u}]
          ELSE [ReleaseProfileAndBookings(@) EXCEPT !.accessState = "active",
                                                    !.appsDue = @ \ {u},
                                                    !.merges = @ \cup {u}]]
    /\ UNCHANGED <<bookings, profiles, applications, rate, fold, forms, onboarding>>

\* The document after setDoc(providerProfiles/uid, {...}, {merge: true}): the
\* fields named in the write replace the stored ones.
MergedProfile(profile) ==
    [exists |-> TRUE, rating |-> 500, reviewCount |-> 0,
     displayName |-> AppliedName, bio |-> "", services |-> {AppliedService},
     flag |-> [isApproved |-> TRUE, isOnline |-> FALSE, acceptingBookings |-> FALSE]]

\* The bookings query of a provider as a dashboard shows it.
BookingsOf(u, store) ==
    [b \in BookingIds |->
        IF store[b].exists /\ store[b].providerUid = u
        THEN store[b].status ELSE "absent"]

\* The merge write is committed and the snapshot callback continues: it opens
\* the profile listener and the bookings listener.
MergeDone(d, u) ==
    /\ u \in dash[d].merges
    /\ profiles' = [profiles EXCEPT ![u] = MergedProfile(@)]
    /\ rate' = MarkStale(rate, {}, {u})
    /\ dash' = [dash EXCEPT ![d].merges = @ \ {u},
                            ![d].profileSubs = @ \cup {u},
                            ![d].unsubscribeProfile = u,
                            ![d].bookingsSubs = @ \cup {u},
                            ![d].unsubscribeBookings = u]
    /\ UNCHANGED <<bookings, applications, fold, forms, onboarding>>

\* Snapshot callback of a bookings listener: setBookingRequests.
BookingsSnapshot(d, u) ==
    /\ u \in dash[d].bookingsSubs
    /\ dash[d].page = "mounted"
    /\ dash[d].bookingRequests # BookingsOf(u, bookings)
    /\ dash' = [dash EXCEPT ![d].bookingRequests = BookingsOf(u, bookings)]
    /\ UNCHANGED <<bookings, profiles, applications, rate, fold, forms, onboarding>>

\* The buttons rendered for a request: Accept and Decline while it is shown as
\* requested, Mark completed while it is shown as accepted.
ButtonsFor(shownStatus) ==
    IF shownStatus = "requested" THEN {"accepted", "declined"}
    ELSE IF shownStatus = "accepted" THEN {"completed"}
    ELSE {}

\* A write that replaces the booking document instead of updating it.
StatusWriteReplacing(booking, nextStatus, uid) ==
    [booking EXCEPT !.status = nextStatus, !.providerUpdatedBy = uid,
                    !.service = "", !.date = "", !.time = "", !.address = "",
                    !.customerRating = 0, !.ratedAt = FALSE]

\* The booking document after updateDoc in updateBookingStatus.
StatusWrite(booking, nextStatus, uid) ==
    [booking EXCEPT !.status = nextStatus, !.providerUpdatedBy = uid]

\* updateBookingStatus, called from a button of the requests tab.  The update is
\* a plain updateDoc; the page's own bookings listener sees the local write at
\* once.
updateBookingStatus(d, b, nextStatus) ==
    LET owner == bookings[b].providerUid
        written == [bookings EXCEPT
                      ![b] = StatusWrite(@, nextStatus, dash[d].providerUid)]
    IN  /\ dash[d].page = "mounted"
        /\ dash[d].accessState \in {"active", "error"}
        /\ nextStatus \in ButtonsFor(dash[d].bookingRequests[b])
        /\ dash[d].providerUid # NoUser
        /\ bookings' = written
        /\ rate' = MarkStale(rate, {b}, {})
        /\ dash' = [dash EXCEPT ![d].bookingRequests =
              IF owner \in dash[d].bookingsSubs
              THEN BookingsOf(owner, written) ELSE @]
        /\ UNCHANGED <<profiles, applications, fold, forms, onboarding>>

\* The profile document after updateDoc in updateAvailability.
AvailabilityWrite(profile, field, value) ==
    [profile EXCEPT !.flag = (field :> value) @@ @]

\* updateAvailability, called from the availability buttons of the dashboard.
\* updateDoc rejects when the profile document does not exist; the handler then
\* only shows the error.
updateAvailability(d, field, value) ==
    LET uid == dash[d].providerUid
    IN  /\ dash[d].page = "mounted"
        /\ dash[d].accessState \in {"active", "error"}
        /\ uid # NoUser
        /\ profiles[uid].exists
        /\ profiles' = [profiles EXCEPT ![uid] = AvailabilityWrite(@, field, value)]
        /\ rate' = MarkStale(rate, {}, {uid})
        /\ UNCHANGED <<bookings, applications, dash, fold, forms, onboarding>>

\* The profile document after updateDoc in saveProfile.
ProfileWrite(profile, name, bio, svcs) ==
    [profile EXCEPT !.displayName = name, !.bio = bio, !.services = svcs]

\* saveProfile with the form holding a non-blank name and at least one service
\* (otherwise it returns after setError).
saveProfile(d, name, bio, svcs) ==
    LET uid == dash[d].providerUid
    IN  /\ dash[d].page = "mounted"
        /\ dash[d].accessState \in {"active", "error"}
        /\ uid # NoUser
        /\ name # ""
        /\ svcs # {}
        /\ profiles[uid].exists
        /\ profiles' = [profiles EXCEPT ![uid] = ProfileWrite(@, name, bio, svcs)]
        /\ rate' = MarkStale(rate, {}, {uid})
        /\ UNCHANGED <<bookings, applications, dash, fold, forms, onboarding>>

\* The provider leaves the dashboard: the cleanup of the effect runs.
DashLeave(d) ==
    /\ dash[d].page = "mounted"
    /\ dash' = [dash EXCEPT ![d] = Cleanup(@)]
    /\ UNCHANGED <<bookings, profiles, applications, rate, fold, forms, onboarding>>

\* ------------------------------------------------------ provider onboarding
FormPages == {"signup", "apply"}

\* Messages of the two pages.
ErrCreateAccount == "Unable to create account. Please try again."
ErrNotVerified == "Email not verified yet. Please check your inbox."
ErrSetupTimeout == "Profile setup is taking too long. Please try again."
ErrFields == "Please fix the highlighted fields."
ErrSubmitTimeout == "Submission timed out. Please try again."
ErrSubmitFailed == "Submission failed. Please try again."

\* The message the 10 s timer of page f rejects with.
TimeoutMessage(f) == IF f = "signup" THEN ErrSetupTimeout ELSE ErrSubmitTimeout

\* The message the catch block of page f shows for a rejected write.
FailureMessage(f) == IF f = "signup" THEN ErrCreateAccount ELSE ErrSubmitFailed

\* useState initial values of the sign-up page; racing: the handler awaits
\* Promise.race, writeId: the write that handler issued.
InitSignUpPage ==
    [status |-> "idle", error |-> NoError, verificationSent |-> FALSE,
     racing |-> FALSE, writeId |-> 0, route |-> "open"]

\* The application page before it is opened; role is what its auth effect read
\* from users/{uid}.
InitApplyPage ==
    [status |-> "idle", error |-> NoError, racing |-> FALSE, writeId |-> 0,
     route |-> "closed", role |-> "unread"]

InitForms == [signup |-> InitSignUpPage, apply |-> InitApplyPage]

\* The accounts of the sign-up and sign-in pages: n1 is created on the provider
\* sign-up page, k1 on the customer sign-up page, g1 is a Google account.
SignUpAccounts == {"n1", "k1", "g1"}

\* The role field of a users record; "none" stands for no record.
AccountRoles == {"customer", "provider", "admin"}

\* No write issued, none in flight, nothing stored; users: the role of each
\* users/{uid} record, customerPending: pendingUserId of the customer sign-up
\* page is set, signIn: the account whose getDoc the provider sign-in listener
\* has awaited and whether the record existed.
InitOnboarding ==
    [issued |-> 0, flight |-> {}, stored |-> {},
     users |-> [a \in SignUpAccounts |-> "none"],
     customerPending |-> FALSE,
     signIn |-> [user |-> NoUser, existed |-> FALSE]]

\* users/{uid} exists once a setDoc of the sign-up page was applied.
UserDocStored(ob) == \E w \in ob.stored : w.page = "signup"

\* The providerApplications documents addDoc has created.
ApplicationDocs(ob) == {w \in ob.stored : w.page = "apply"}

\* handleSubmit of the sign-up page: the account is created and the
\* verification mail sent, or one of the calls rejects.
createAccount(ok) ==
    /\ forms.signup.route = "open"
    /\ ~forms.signup.verificationSent
    /\ forms.signup.status # "loading"
    /\ forms' = [forms EXCEPT !.signup =
          IF ok THEN [@ EXCEPT !.status = "success", !.error = NoError,
                               !.verificationSent = TRUE]
          ELSE [@ EXCEPT !.status = "error", !.error = ErrCreateAccount]]
    /\ UNCHANGED <<bookings, profiles, applications, rate, dash, fold, onboarding>>

\* The write a handler of page f hands to the SDK before it awaits the race.
IssueWrite(f) ==
    LET id == onboarding.issued + 1
    IN  /\ onboarding.issued < MaxWrites
        /\ forms' = [forms EXCEPT ![f].error = NoError, ![f].racing = TRUE,
                                  ![f].writeId = id,
                                  ![f].status = IF f = "apply" THEN "loading" ELSE @]
        /\ onboarding' = [onboarding EXCEPT
              !.issued = id, !.flight = @ \cup {[page |-> f, id |-> id]}]

\* handleCheckVerification: after reload() the mail is verified or not.
handleCheckVerification(verified) ==
    /\ forms.signup.route = "open"
    /\ forms.signup.verificationSent
    /\ ~forms.signup.racing
    /\ IF verified THEN IssueWrite("signup")
       ELSE /\ forms' = [forms EXCEPT !.signup.error = ErrNotVerified]
            /\ UNCHANGED onboarding
    /\ UNCHANGED <<bookings, profiles, applications, rate, dash, fold>>

\* The application page is opened: its auth effect reads users/{uid} and sends
\* everyone without the provider role back to sign-up.
ApplyOpened ==
    LET record == onboarding.users["n1"]
        role == IF record = "none" THEN NoError ELSE record
    IN  /\ forms.apply.route # "open"
        /\ forms' = [forms EXCEPT !.apply =
              [InitApplyPage EXCEPT
                  !.role = role,
                  !.route = IF role = "provider" THEN "open" ELSE "closed"]]
        /\ UNCHANGED <<bookings, profiles, applications, rate, dash, fold, onboarding>>

\* handleSubmit of the application page with a form that passes validation or
\* does not.
handleSubmit(valid) ==
    /\ forms.apply.route = "open"
    /\ forms.apply.status # "loading"
    /\ IF valid THEN IssueWrite("apply")
       ELSE /\ forms' = [forms EXCEPT !.apply.status = "error",
                                      !.apply.error = ErrFields]
            /\ UNCHANGED onboarding
    /\ UNCHANGED <<bookings, profiles, applications, rate, dash, fold>>

\* The handler of page f awaits the race and its write is w.
Awaits(f, w) == forms[f].racing /\ w = [page |-> f, id |-> forms[f].writeId]

\* The server applies write w; the handler that still awaits it goes on after
\* the await.
WriteCommitted(w) ==
    /\ w \in onboarding.flight
    /\ onboarding' = [onboarding EXCEPT
          !.flight = @ \ {w}, !.stored = @ \cup {w},
          !.users = IF w.page = "signup" THEN [@ EXCEPT !["n1"] = "provider"] ELSE @]
    /\ forms' = IF Awaits(w.page, w)
                THEN [forms EXCEPT ![w.page].racing = FALSE,
                                   ![w.page].status = "success",
                                   ![w.page].route =
                                       IF w.page = "signup" THEN "closed" ELSE @]
                ELSE forms
    /\ UNCHANGED <<bookings, profiles, applications, rate, dash, fold>>

\* The write is rejected; the handler that still awaits it shows the message.
WriteRejected(w) ==
    /\ w \in onboarding.flight
    /\ onboarding' = [onboarding EXCEPT !.flight = @ \ {w}]
    /\ forms' = IF Awaits(w.page, w)
                THEN [forms EXCEPT ![w.page].racing = FALSE,
                                   ![w.page].status = "error",
                                   ![w.page].error = FailureMessage(w.page)]
                ELSE forms
    /\ UNCHANGED <<bookings, profiles, applications, rate, dash, fold>>

\* A timer whose expiry also withdraws the write from the SDK.
RaceTimedOutCancelling(f) ==
    /\ forms[f].racing
    /\ forms' = [forms EXCEPT ![f].racing = FALSE, ![f].status = "error",
                              ![f].error = TimeoutMessage(f)]
    /\ onboarding' = [onboarding EXCEPT
          !.flight = @ \ {[page |-> f, id |-> forms[f].writeId]}]
    /\ UNCHANGED <<bookings, profiles, applications, rate, dash, fold>>

\* The 10 s timer of the handler of page f fires first: Promise.race rejects,
\* the write stays with the SDK.
RaceTimedOut(f) ==
    /\ forms[f].racing
    /\ forms' = [forms EXCEPT ![f].racing = FALSE, ![f].status = "error",
                              ![f].error = TimeoutMessage(f)]
    /\ UNCHANGED onboarding
    /\ UNCHANGED <<bookings, profiles, applications, rate, dash, fold>>

\* handleSubmit of the customer sign-up page creates account k1 and sets
\* pendingUserId.
customerSignUp ==
    /\ ~onboarding.customerPending
    /\ onboarding' = [onboarding EXCEPT !.customerPending = TRUE]
    /\ UNCHANGED <<bookings, profiles, applications, rate, dash, fold, forms>>

\* handleCheckVerification of the customer sign-up page with the mail verified:
\* setDoc without merge puts the record with role customer.
customerCheckVerification ==
    /\ onboarding.customerPending
    /\ onboarding' = [onboarding EXCEPT !.users["k1"] = "customer"]
    /\ UNCHANGED <<bookings, profiles, applications, rate, dash, fold, forms>>

\* The account u has a verified mail address: Google accounts always, the
\* others once their sign-up page has created them.
Verifiable(u) ==
    CASE u = "g1" -> TRUE
      [] u = "n1" -> forms.signup.verificationSent
      [] u = "k1" -> onboarding.customerPending

\* The auth listener of the provider sign-in page for the verified account u,
\* up to the answer of getDoc.
ProviderSignInRead(u) ==
    /\ Verifiable(u)
    /\ onboarding.signIn.user = NoUser
    /\ onboarding' = [onboarding EXCEPT
          !.signIn = [user |-> u, existed |-> onboarding.users[u] # "none"]]
    /\ UNCHANGED <<bookings, profiles, applications, rate, dash, fold, forms>>

\* The listener goes on after the await: a record that did not exist is put
\* with role provider.
ProviderSignInProvision ==
    LET u == onboarding.signIn.user
    IN  /\ u # NoUser
        /\ onboarding' = [onboarding EXCEPT
              !.signIn = [user |-> NoUser, existed |-> FALSE],
              !.users[u] = IF onboarding.signIn.existed THEN @ ELSE "provider"]
        /\ UNCHANGED <<bookings, profiles, applications, rate, dash, fold, forms>>

\* handleGoogleSignUp of the provider sign-up page with the Google account u
\* chosen in the popup: setDoc with merge replaces the role.
handleGoogleSignUp(u) ==
    /\ forms.signup.route = "open"
    /\ onboarding' = [onboarding EXCEPT !.users[u] = "provider"]
    /\ UNCHANGED <<bookings, profiles, applications, rate, dash, fold, forms>>

\* The flows that write users records besides provider email verification.
AccountsNext ==
    \/ customerSignUp
    \/ customerCheckVerification
    \/ \E u \in SignUpAccounts : ProviderSignInRead(u)
    \/ ProviderSignInProvision
    \/ handleGoogleSignUp("g1")

\* The two onboarding pages and the writes they issue.
OnboardingNext ==
    \/ \E ok \in BOOLEAN : createAccount(ok)
    \/ \E verified \in BOOLEAN : handleCheckVerification(verified)
    \/ ApplyOpened
    \/ \E valid \in BOOLEAN : handleSubmit(valid)
    \/ \E w \in onboarding.flight : WriteCommitted(w)
    \/ \E w \in onboarding.flight : WriteRejected(w)
    \/ \E f \in FormPages : RaceTimedOut(f)

\* ------------------------------------------------------------ whole program
Init ==
    /\ bookings = [b \in BookingIds |-> NoDoc]
    /\ profiles = [p \in Providers |-> NoDoc]
    /\ applications = [p \in Providers |-> "manual_review_pending"]
    /\ rate = [s \in RateSessions |-> InitRateSession]
    /\ dash = [d \in DashSessions |-> InitDashSession]
    /\ fold = [count |-> 0, rating |-> 500, sum |-> 0]
    /\ forms = InitForms
    /\ onboarding = InitOnboarding

\* Sign-in and sign-out on the customer pages RS.
BookAuthNext(RS) ==
    \/ \E s \in RS, u \in Customers \cup {NoUser} : BookAuthChanged(s, u)
    \/ \E s \in RS, u \in Customers : BookRoleLoaded(s, u)

\* Booking requests sent from the customer pages RS.
SubmitNext(RS) ==
    \/ \E s \in RS : submitBooking(s)
    \/ \E s \in RS : SubmitCommitted(s)
    \/ \E s \in RS : SubmitFailed(s)

\* The first booking request of the store, sent from RS.
SubmitFirst(RS) ==
    /\ \A b \in BookingIds : ~bookings[b].exists
    /\ SubmitNext(RS)

\* The wizard on the customer pages RS; SV are the services clicked.
WizardNext(RS, SV) ==
    \/ \E s \in RS, item \in SV : SelectService(s, item)
    \/ \E s \in RS, id \in Providers : SelectProvider(s, id)
    \/ \E s \in RS, value \in FormDates : SetDate(s, value)
    \/ \E s \in RS, value \in FormTimes : SetTime(s, value)
    \/ \E s \in RS, value \in FormAddresses : SetAddress(s, value)
    \/ \E s \in RS : nextStep(s)
    \/ \E s \in RS : prevStep(s)

\* Answers to the loadProviders calls of the customer pages RS.
LoadNext(RS) ==
    \/ \E s \in RS : \E l \in rate[s].wizard.loads : LoadDone(s, l)
    \/ \E s \in RS : \E l \in rate[s].wizard.loads : LoadFailed(s, l)

\* Steps of rateProvider on the customer pages RS.
RateNext(RS, RV) ==
    \/ \E s \in RS : CustomerBookingsSnapshot(s)
    \/ \E s \in RS, b \in BookingIds, r \in RV : rateProvider(s, b, r)
    \/ \E s \in RS : TxnGetBooking(s)
    \/ \E s \in RS : TxnGetProvider(s)
    \/ \E s \in RS : TxnCommit(s)
    \/ \E s \in RS : TxnRetry(s)

\* The admin console reviewing the applications of the providers PS.
AdminNext(PS, choices) == \E p \in PS, st \in choices : handleStatusChange(p, st)

\* Opening, leaving and signing in on the provider dashboards DS.
DashAuthNext(DS) ==
    \/ \E d \in DS, u \in DashUsers : DashOpen(d, u)
    \/ \E d \in DS, u \in DashUsers \cup {NoUser} : DashAuthChanged(d, u)
    \/ \E d \in DS, u \in DashUsers : DashUserLoaded(d, u)
    \/ \E d \in DS : DashLeave(d)

\* The listeners and buttons of the provider dashboards DS.
DashWorkNext(DS) ==
    \/ \E d \in DS, u \in Providers : AppsSnapshot(d, u)
    \/ \E d \in DS, u \in Providers : MergeDone(d, u)
    \/ \E d \in DS, u \in Providers : BookingsSnapshot(d, u)
    \/ \E d \in DS, b \in BookingIds, st \in {"accepted", "declined", "completed"} :
          updateBookingStatus(d, b, st)

ProfileNext(DS) ==
    \/ \E d \in DS, field \in AvailabilityFields, value \in BOOLEAN :
          updateAvailability(d, field, value)
    \/ \E d \in DS, name \in ProfileNames, bio \in ProfileBios,
          svcs \in ProfileServiceChoices : saveProfile(d, name, bio, svcs)

Next ==
    \/ BookAuthNext(RateSessions)
    \/ WizardNext(RateSessions, services)
    \/ LoadNext(RateSessions)
    \/ SubmitNext(RateSessions)
    \/ RateNext(RateSessions, RatingChoices)
    \/ AdminNext(Providers, ReviewChoices)
    \/ DashAuthNext(DashSessions)
    \/ DashWorkNext(DashSessions)
    \/ ProfileNext(DashSessions)
    \/ OnboardingNext

Spec == Init /\ [][Next]_vars

\* ------------------------------------------------------- established states
\* A customer page on which customer u is signed in and the role is loaded.
\* The list entry of provider p as loaded while p was online and accepting
\* bookings after the dashboard's merge write.
ListedEntry(p) ==
    ProviderEntry(p, AvailabilityWrite(
                        AvailabilityWrite(MergedProfile(NoDoc), "isOnline", TRUE),
                        "acceptingBookings", TRUE))

\* A wizard taken to step 5 with provider p selected.
ReadyWizard(p) ==
    [InitWizard EXCEPT !.step = 5, !.service = AppliedService,
                       !.selectedProviderId = p,
                       !.date = "2026-01-15", !.time = "09:00",
                       !.address = "1 Main Rd",
                       !.providers = <<ListedEntry(p)>>]

\* The wizard is at step 5 with provider p1 selected from a list loaded while p1
\* was online and accepting bookings.
SignedInRateSession(u) ==
    [InitRateSession EXCEPT !.sessionUser = u, !.sessionRole = "customer",
                            !.wizard = ReadyWizard("p1")]

\* A dashboard provider u has opened, past the first applications snapshot of an
\* approved provider and its merge write, before any booking was delivered.
ActiveDashSession(u) ==
    [InitDashSession EXCEPT
        !.page = "mounted", !.authUser = u, !.providerUid = u,
        !.accessState = "active",
        !.appsSubs = {u}, !.unsubscribeApps = u,
        !.profileSubs = {u}, !.unsubscribeProfile = u,
        !.bookingsSubs = {u}, !.unsubscribeBookings = u]

\* The store once both providers are approved and have opened their dashboard.
ApprovedStore ==
    /\ bookings = [b \in BookingIds |-> NoDoc]
    /\ profiles = [p \in Providers |-> MergedProfile(NoDoc)]
    /\ applications = [p \in Providers |-> "approved"]
    /\ fold = [count |-> 0, rating |-> 500, sum |-> 0]
    /\ forms = InitForms
    /\ onboarding = InitOnboarding

\* ---------------------------------------------------------------- lifecycle
\* The booking lifecycle: customer c1 sends requests, provider p1 has two
\* dashboards open (two devices).
InitLifecycle ==
    /\ ApprovedStore
    /\ rate = [s \in RateSessions |->
                 IF s = "r1" THEN SignedInRateSession("c1") ELSE InitRateSession]
    /\ dash = [d \in DashSessions |-> ActiveDashSession("p1")]

LifecycleNext ==
    \/ SubmitNext({"r1"})
    \/ AdminNext({"p1"}, {"approved"})
    \/ DashWorkNext(DashSessions)

SpecLifecycle == InitLifecycle /\ [][LifecycleNext]_vars

\* Sign-in on one dashboard: the providers share a device, customer c1 sends
\* requests to provider p1.
InitDashAuth ==
    /\ ApprovedStore
    /\ rate = [s \in RateSessions |->
                 IF s = "r1" THEN SignedInRateSession("c1") ELSE InitRateSession]
    /\ dash = [d \in DashSessions |-> InitDashSession]

DashAuthSpecNext ==
    \/ SubmitFirst({"r1"})
    \/ DashAuthNext({"d1"})
    \/ DashWorkNext({"d1"})

SpecDashAuth == InitDashAuth /\ [][DashAuthSpecNext]_vars

\* ------------------------------------------------------------------- rating
\* The rating aggregator: customer c1 on two pages (two devices), provider p1
\* with one dashboard.
InitRating ==
    /\ ApprovedStore
    /\ rate = [s \in RateSessions |->
                 SignedInRateSession("c1")]
    /\ dash = [d \in DashSessions |->
                 IF d = "d1" THEN ActiveDashSession("p1") ELSE InitDashSession]

RatingNext ==
    \/ SubmitFirst(RateSessions)
    \/ AdminNext({"p1"}, {"approved"})
    \/ RateNext(RateSessions, RatingChoices)
    \/ DashWorkNext({"d1"})

SpecRating == InitRating /\ [][RatingNext]_vars

\* The rating aggregator against the booking lifecycle: one customer page, provider
\* p1 with two dashboards open.
RatingRaceNext ==
    \/ SubmitFirst({"r1"})
    \/ AdminNext({"p1"}, {"approved"})
    \/ RateNext({"r1"}, RatingChoices)
    \/ DashWorkNext(DashSessions)

SpecRatingRace == InitLifecycle /\ [][RatingRaceNext]_vars

\* The rating aggregator on one customer page where customers sign in and out.
InitRatingAuth ==
    /\ ApprovedStore
    /\ rate = [s \in RateSessions |->
                 IF s = "r1" THEN SignedInRateSession("c1") ELSE InitRateSession]
    /\ dash = [d \in DashSessions |->
                 IF d = "d1" THEN ActiveDashSession("p1") ELSE InitDashSession]

RatingAuthNext ==
    \/ AdminNext({"p1"}, {"approved"})
    \/ BookAuthNext({"r1"})
    \/ SubmitFirst({"r1"})
    \/ RateNext({"r1"}, RatingChoices)
    \/ DashWorkNext({"d1"})

SpecRatingAuth == InitRatingAuth /\ [][RatingAuthNext]_vars

\* Concurrent ratings of completed bookings of provider p1, nothing else running.
CompletedBooking(customer, provider) ==
    [NewBooking(customer, ListedEntry(provider), ReadyWizard(provider)) EXCEPT
        !.status = "completed", !.providerUpdatedBy = provider]

InitRate ==
    /\ \E cs \in [BookingIds -> Customers] :
          /\ bookings = [b \in BookingIds |-> CompletedBooking(cs[b], "p1")]
          /\ rate = [s \in RateSessions |->
                [SignedInRateSession(IF s = "r1" THEN "c1" ELSE "c2") EXCEPT
                    !.rateable = {b \in BookingIds :
                                    cs[b] = IF s = "r1" THEN "c1" ELSE "c2"}]]
    /\ profiles = [p \in Providers |-> MergedProfile(NoDoc)]
    /\ applications = [p \in Providers |-> "approved"]
    /\ dash = [d \in DashSessions |-> InitDashSession]
    /\ fold = [count |-> 0, rating |-> 500, sum |-> 0]
    /\ forms = InitForms
    /\ onboarding = InitOnboarding

SpecRate == InitRate /\ [][RateNext(RateSessions, Ratings)]_vars

\* ------------------------------------------------------------ rating guards
\* The documents a rateProvider transaction can read for a booking its page
\* still shows as rateable: gone, of another customer, not completed, rated.
GuardBookings ==
    {NoDoc, CompletedBooking("c1", "p1"), CompletedBooking("c2", "p1"),
     [CompletedBooking("c1", "p1") EXCEPT !.status = "accepted"],
     [CompletedBooking("c1", "p1") EXCEPT !.customerRating = 3, !.ratedAt = TRUE]}

\* Customer c1 on two pages whose lists still offer these bookings for rating
\* (the first page booking 1, the second the others), over every such store,
\* with and without the profile of p1.
InitRateGuards ==
    /\ bookings \in [BookingIds -> GuardBookings]
    /\ \E present \in BOOLEAN :
          profiles = [p \in Providers |->
                        IF present THEN MergedProfile(NoDoc) ELSE NoDoc]
    /\ rate = [s \in RateSessions |->
                 [SignedInRateSession("c1") EXCEPT
                     !.rateable = IF s = "r1" THEN {1} ELSE BookingIds \ {1}]]
    /\ applications = [p \in Providers |-> "approved"]
    /\ dash = [d \in DashSessions |-> InitDashSession]
    /\ fold = [count |-> 0, rating |-> 500, sum |-> 0]
    /\ forms = InitForms
    /\ onboarding = InitOnboarding

SpecRateGuards == InitRateGuards /\ [][RateNext(RateSessions, RatingChoices)]_vars

\* --------------------------------------------------------------------- fold
\* The running average of one profile as successive transactions store it:
\* each step is the arithmetic of one committed rateProvider call.
FoldRating(r) ==
    /\ fold.count < MaxRatings
    /\ fold' = [count |-> fold.count + 1,
                rating |-> NextAverage(fold.rating, fold.count, r),
                sum |-> fold.sum + r]
    /\ UNCHANGED <<bookings, profiles, applications, rate, dash, forms, onboarding>>

InitFold ==
    /\ ApprovedStore
    /\ rate = [s \in RateSessions |-> InitRateSession]
    /\ dash = [d \in DashSessions |-> InitDashSession]

FoldNext == \E r \in Ratings : FoldRating(r)

SpecFold == InitFold /\ [][FoldNext]_vars

\* ------------------------------------------------------- booking wizard
\* A profile whose provider is online and accepts bookings.
AvailableProfile ==
    AvailabilityWrite(AvailabilityWrite(MergedProfile(NoDoc), "isOnline", TRUE),
                      "acceptingBookings", TRUE)

\* What ?service= holds when the booking page is opened: nothing, a catalog
\* entry, or any other text.
UrlServices == {"", "Home Cleaning", "Gardening"}

\* A visitor opens the booking page, signs in or out, walks through the wizard
\* and submits.
InitBooking ==
    /\ bookings = [b \in BookingIds |-> NoDoc]
    /\ profiles = [p \in Providers |->
          IF p \in {"p1", "p2"} THEN AvailableProfile ELSE NoDoc]
    /\ applications = [p \in Providers |-> "approved"]
    /\ \E preselected \in UrlServices \cap (services \cup {""}) :
          rate = [s \in RateSessions |->
             IF s = "r1"
             THEN [InitRateSession EXCEPT !.wizard = MountedWizard(preselected)]
             ELSE InitRateSession]
    /\ dash = [d \in DashSessions |->
          IF d = "d1" THEN ActiveDashSession("p1") ELSE InitDashSession]
    /\ fold = [count |-> 0, rating |-> 500, sum |-> 0]
    /\ forms = InitForms
    /\ onboarding = InitOnboarding

BookingNext ==
    \/ BookAuthNext({"r1"})
    \/ WizardNext({"r1"}, {"Home Cleaning"})
    \/ LoadNext({"r1"})
    \/ SubmitNext({"r1"})

SpecBooking == InitBooking /\ [][BookingNext]_vars

\* ---------------------------------------------------- provider discovery
\* The availability fields a stored profile can hold: all true, one of them
\* false, and a document without the isOnline field.
DiscoveryFlags ==
    { [isApproved |-> a, isOnline |-> o, acceptingBookings |-> b] :
          <<a, o, b>> \in {<<TRUE, TRUE, TRUE>>, <<TRUE, FALSE, TRUE>>,
                           <<TRUE, TRUE, FALSE>>, <<FALSE, TRUE, TRUE>>} }
    \cup { [isApproved |-> TRUE, acceptingBookings |-> TRUE] }

\* The services arrays a stored profile can hold: the one written at approval
\* and the ones saveProfile writes.
DiscoveryServiceSets == {{AppliedService}} \cup ProfileServiceChoices

\* Stored rating (in hundredths) and reviewCount of the providers A, B and C.
ExampleRating == [p \in Providers |-> IF p = "p3" THEN 490 ELSE 480]
ExampleCount == [p \in Providers |-> IF p = "p1" THEN 10 ELSE IF p = "p2" THEN 40 ELSE 1]

DiscoveryRatings == {480, 490}
DiscoveryCounts == {1, 10, 40}

\* The services a visitor clicks at step 1.
DiscoveryServices == {"Home Cleaning", "Handyman"}

\* The booking page is opened over a store of provider profiles (with or
\* without ?service=); the visitor picks services and every getDocs answers.
InitDiscovery ==
    /\ bookings = [b \in BookingIds |-> NoDoc]
    /\ \/ \E fl \in [Providers -> DiscoveryFlags \cup {<<>>}],
             sv \in [Providers -> DiscoveryServiceSets] :
             profiles = [p \in Providers |->
                IF fl[p] = <<>> THEN NoDoc
                ELSE [AvailableProfile EXCEPT
                         !.flag = fl[p], !.services = sv[p],
                         !.rating = ExampleRating[p],
                         !.reviewCount = ExampleCount[p]]]
       \/ \E rt \in [Providers -> DiscoveryRatings],
             ct \in [Providers -> DiscoveryCounts] :
             profiles = [p \in Providers |->
                [AvailableProfile EXCEPT
                    !.rating = rt[p], !.reviewCount = ct[p],
                    !.services = IF p = "p3" THEN {"Home Cleaning", "Handyman"}
                                 ELSE @]]
    /\ applications = [p \in Providers |-> "approved"]
    /\ \E preselected \in UrlServices :
          rate = [s \in RateSessions |->
             IF s = "r1"
             THEN [InitRateSession EXCEPT !.wizard = MountedWizard(preselected)]
             ELSE InitRateSession]
    /\ dash = [d \in DashSessions |-> InitDashSession]
    /\ fold = [count |-> 0, rating |-> 500, sum |-> 0]
    /\ forms = InitForms
    /\ onboarding = InitOnboarding

DiscoveryNext ==
    \/ \E item \in DiscoveryServices : SelectService("r1", item)
    \/ \E l \in rate["r1"].wizard.loads : LoadDone("r1", l)

SpecDiscovery == InitDiscovery /\ [][DiscoveryNext]_vars

\* The same page when getDocs can also reject.
DiscoveryFaultNext ==
    \/ DiscoveryNext
    \/ \E l \in rate["r1"].wizard.loads : LoadFailed("r1", l)

SpecDiscoveryFaults == InitDiscovery /\ [][DiscoveryFaultNext]_vars

\* ------------------------------------------------- onboarding under timeouts
\* A provider signs up, verifies the mail and applies; every write races a
\* 10 s timer.
InitOnboardingSpec ==
    /\ ApprovedStore
    /\ rate = [s \in RateSessions |-> InitRateSession]
    /\ dash = [d \in DashSessions |-> InitDashSession]

SpecOnboarding == InitOnboardingSpec /\ [][OnboardingNext]_vars

\* --------------------------------------------------- roles of users records
\* The Google account may already have a users record of any role when the
\* sign-up and sign-in pages are used.
InitAccounts ==
    /\ bookings = [b \in BookingIds |-> NoDoc]
    /\ profiles = [p \in Providers |-> NoDoc]
    /\ applications = [p \in Providers |-> "manual_review_pending"]
    /\ rate = [s \in RateSessions |-> InitRateSession]
    /\ dash = [d \in DashSessions |-> InitDashSession]
    /\ fold = [count |-> 0, rating |-> 500, sum |-> 0]
    /\ forms = InitForms
    /\ \E r \in AccountRoles \cup {"none"} :
          onboarding = [InitOnboarding EXCEPT !.users["g1"] = r]

SpecAccounts ==
    InitAccounts
    /\ [][\/ \E ok \in BOOLEAN : createAccount(ok)
          \/ \E verified \in BOOLEAN : handleCheckVerification(verified)
          \/ \E w \in onboarding.flight : WriteCommitted(w)
          \/ AccountsNext]_vars

\* ------------------------------------------------ accounts on the booking page
\* The accounts that sign in on the device of the booking page: a customer and
\* a provider.
BookingAccounts == {"c1", "p1"}

\* Customer c1 is at step 5 of the wizard; the account of the device changes
\* (sign-out, or a sign-in as another account) while role lookups are in flight.
SessionRoleNext ==
    \/ \E u \in BookingAccounts \cup {NoUser} : BookAuthChanged("r1", u)
    \/ \E u \in BookingAccounts : BookRoleLoaded("r1", u)
    \/ SubmitNext({"r1"})
    \/ prevStep("r1")
    \/ nextStep("r1")

SpecSessionRole == InitDashAuth /\ [][SessionRoleNext]_vars

\* ------------------------------------------------- provider profile upkeep
\* A provider whose application is still under review opens the dashboard; the
\* admin decides; the approved provider edits the profile, toggles availability,
\* completes a booking of customer c1, who rates it.
InitProfile ==
    /\ bookings = [b \in BookingIds |-> NoDoc]
    /\ profiles = [p \in Providers |-> NoDoc]
    /\ applications = [p \in Providers |-> "manual_review_pending"]
    /\ rate = [s \in RateSessions |->
          IF s = "r1" THEN SignedInRateSession("c1") ELSE InitRateSession]
    /\ dash = [d \in DashSessions |-> InitDashSession]
    /\ fold = [count |-> 0, rating |-> 500, sum |-> 0]
    /\ forms = InitForms
    /\ onboarding = InitOnboarding

DashLoadNext(DS, u) ==
    \/ \E d \in DS : DashOpen(d, u)
    \/ \E d \in DS : DashUserLoaded(d, u)
    \/ \E d \in DS : DashLeave(d)

ProfileSpecNext ==
    \/ AdminNext({"p1"}, ReviewChoices)
    \/ DashLoadNext({"d1"}, "p1")
    \/ DashWorkNext({"d1"})
    \/ ProfileNext({"d1"})
    \/ SubmitFirst({"r1"})
    \/ RateNext({"r1"}, RatingChoices)

SpecProfile == InitProfile /\ [][ProfileSpecNext]_vars

\* =================================================================== claims
\* A step rates booking b: its customerRating goes from unset to set.
BecomesRated(b) ==
    /\ bookings[b].exists
    /\ bookings[b].customerRating = 0
    /\ bookings'[b].customerRating # 0

\* The rateProvider call of session s ends in this step.
CallEnds(s) == rate[s].call.pc # "idle" /\ rate'[s].call.pc = "idle"

\* C1: for concurrent rateProvider attempts on one booking at most one mutates
\* the booking and the profile: a customerRating once set is never written
\* again, the attempt that commits finds the booking unrated, and every attempt
\* that ends otherwise ends with an error and writes nothing; on a booking that is
\* already rated the error is "already rated", "only completed" or the store's
\* refusal of a stale commit.
C1_AtMostOneRating ==
    [][/\ \A b \in BookingIds :
            (bookings[b].exists /\ bookings[b].customerRating # 0) =>
                /\ bookings'[b].customerRating = bookings[b].customerRating
                /\ bookings'[b].ratedAt = bookings[b].ratedAt
       /\ \A s \in RateSessions : CallEnds(s) =>
            IF rate'[s].ratingError = NoError
            THEN BecomesRated(rate[s].call.booking)
            ELSE /\ UNCHANGED <<bookings, profiles, forms, onboarding>>
                 /\ bookings[rate[s].call.booking].customerRating # 0 =>
                      rate'[s].ratingError \in
                          {ErrAlreadyRated, ErrNotCompleted, ErrAborted}]_vars

\* C1 witness: a booking is rated and another attempt on a page of the same
\* customer has failed with "already rated".
C1_Witness ==
    \E b \in BookingIds, s \in RateSessions :
        /\ bookings[b].exists
        /\ bookings[b].customerRating # 0
        /\ rate[s].ratingError = ErrAlreadyRated

\* Sum of the customerRating of the bookings in S.
RECURSIVE SumRatings(_)
SumRatings(S) ==
    IF S = {} THEN 0
    ELSE LET b == CHOOSE x \in S : TRUE
         IN  bookings[b].customerRating + SumRatings(S \ {b})

RatedBookings(p) ==
    {b \in BookingIds : /\ bookings[b].exists
                        /\ bookings[b].providerUid = p
                        /\ bookings[b].customerRating # 0}

\* C2: when rateProvider transactions on different completed bookings of one
\* provider run concurrently and nothing else writes the profile, reviewCount is
\* the number of ratings committed and the stored rating is their mean rounded to
\* 2 decimals (5 and 3 give reviewCount 2 and rating 4.00).
C2_NoLostUpdate ==
    LET n == Cardinality(RatedBookings("p1"))
    IN  /\ profiles["p1"].reviewCount = n
        /\ n > 0 => profiles["p1"].rating =
                        ToFixed2(100 * SumRatings(RatedBookings("p1")), n)

\* C2 witness: both bookings are rated, with 5 and 3, and the profile shows
\* reviewCount 2 and rating 4.00.
C2_Witness ==
    /\ {bookings[b].customerRating : b \in {1, 2}} = {3, 5}
    /\ profiles["p1"].reviewCount = 2
    /\ profiles["p1"].rating = 400

\* C3: after N ratings folded into a profile that started with reviewCount 0 the
\* stored rating is the mean of the N ratings rounded to 2 decimals.
C3_RoundedMean ==
    fold.count > 0 => fold.rating = ToFixed2(100 * fold.sum, fold.count)

\* Status changes the lifecycle allows.
AllowedTransitions ==
    {<<"requested", "accepted">>, <<"requested", "declined">>,
     <<"accepted", "completed">>}

\* C4: a booking is created with status requested and every later change of its
\* stored status is requested->accepted, requested->declined or
\* accepted->completed.
C4_OnlyAllowedTransitions ==
    [][\A b \in BookingIds :
          /\ (~bookings[b].exists /\ bookings'[b].exists) =>
                bookings'[b].status = "requested"
          /\ (bookings[b].exists /\ bookings'[b].status # bookings[b].status) =>
                <<bookings[b].status, bookings'[b].status>> \in AllowedTransitions]_vars

\* C5: of two provider actions issued on a booking shown as requested only one
\* takes effect: the stored status never goes from accepted to declined or from
\* declined to accepted.
C5_OneDecision ==
    [][\A b \in BookingIds : bookings[b].exists =>
          /\ ~(bookings[b].status = "accepted" /\ bookings'[b].status = "declined")
          /\ ~(bookings[b].status = "declined" /\ bookings'[b].status = "accepted")]_vars

\* C6: a status transition attempted on a booking whose stored status is declined
\* or completed leaves the stored status and its writer unmodified.
C6_TerminalStatus ==
    [][\A b \in BookingIds :
          (bookings[b].exists /\ bookings[b].status \in {"declined", "completed"}) =>
              /\ bookings'[b].status = bookings[b].status
              /\ bookings'[b].providerUpdatedBy = bookings[b].providerUpdatedBy]_vars

\* C7: the status of a booking is written only by the identity equal to the
\* booking's providerUid (updateBookingStatus records the writer in
\* providerUpdatedBy).
C7_OnlyOwnProvider ==
    \A b \in BookingIds : bookings[b].exists =>
        bookings[b].providerUpdatedBy \in {NoUser, bookings[b].providerUid}

\* The transaction of session s runs its booking guards in this step.
ReadsBooking(s) ==
    /\ rate[s].call.pc = "getBooking"
    /\ rate'[s].call.pc # "getBooking"

\* C8: a booking is rated only while its stored status is completed; a rating
\* attempt by the booking's customer that reads another stored status ends with
\* "You can only rate completed bookings." and leaves bookings and profiles
\* unchanged.
C8_OnlyCompletedRated ==
    [][/\ \A b \in BookingIds : BecomesRated(b) => bookings[b].status = "completed"
       /\ \A s \in RateSessions :
            LET c == rate[s].call
            IN  (/\ ReadsBooking(s)
                 /\ bookings[c.booking].customerUid = c.caller
                 /\ bookings[c.booking].status # "completed") =>
                    /\ rate'[s].ratingError = ErrNotCompleted
                    /\ rate'[s].call = NoCall
                    /\ UNCHANGED <<bookings, profiles, forms, onboarding>>]_vars

\* C8 witness: an attempt has failed with the "only completed" error on a page
\* whose customer has a booking that is stored as not completed and unrated.
C8_Witness ==
    \E s \in RateSessions, b \in BookingIds :
        /\ rate[s].ratingError = ErrNotCompleted
        /\ bookings[b].exists
        /\ bookings[b].customerUid = rate[s].sessionUser
        /\ bookings[b].status # "completed"
        /\ bookings[b].customerRating = 0

\* C9: a booking is rated only by a transaction whose invoking identity is the
\* customerUid stored in the booking; an attempt by another identity ends with
\* "You are not allowed to rate this booking." and leaves bookings and profiles
\* unchanged.
C9_OnlyCustomerRates ==
    [][/\ \A b \in BookingIds : BecomesRated(b) =>
            \E s \in RateSessions :
                /\ CallEnds(s)
                /\ rate[s].call.booking = b
                /\ rate[s].call.caller = bookings[b].customerUid
       /\ \A s \in RateSessions :
            LET c == rate[s].call
            IN  (/\ ReadsBooking(s)
                 /\ bookings[c.booking].customerUid # c.caller) =>
                    /\ rate'[s].ratingError = ErrNotAllowed
                    /\ rate'[s].call = NoCall
                    /\ UNCHANGED <<bookings, profiles, forms, onboarding>>]_vars

\* C9 witness: an attempt by an identity that is not the booking's customer has
\* failed with the permission error, the booking still being unrated.
C9_Witness ==
    \E s \in RateSessions, b \in BookingIds :
        /\ rate[s].ratingError = ErrNotAllowed
        /\ rate[s].sessionUser # NoUser
        /\ bookings[b].exists
        /\ bookings[b].customerUid # rate[s].sessionUser
        /\ bookings[b].status = "completed"
        /\ bookings[b].customerRating = 0

\* C10: the two writes of a rateProvider call commit together or not at all: a
\* step sets a booking's customerRating and ratedAt exactly when that same step
\* folds that rating into the profile of the booking's provider (reviewCount one
\* higher, rating the new average of the stored values).
C10_WritesTogether ==
    [][/\ \A b \in BookingIds : BecomesRated(b) =>
            LET p == bookings[b].providerUid
            IN  /\ bookings'[b].ratedAt
                /\ profiles'[p].reviewCount = profiles[p].reviewCount + 1
                /\ profiles'[p].rating =
                      NextAverage(profiles[p].rating, profiles[p].reviewCount,
                                  bookings'[b].customerRating)
       /\ \A p \in Providers :
            (/\ profiles[p].exists
             /\ profiles'[p].reviewCount = profiles[p].reviewCount + 1) =>
                \E b \in BookingIds :
                    BecomesRated(b) /\ bookings[b].providerUid = p]_vars

\* C10 witness: a booking carries a rating and the profile of its provider counts
\* one review with that rating.
C10_Witness ==
    \E b \in BookingIds :
        /\ bookings[b].exists
        /\ bookings[b].customerRating # 0
        /\ bookings[b].ratedAt
        /\ profiles[bookings[b].providerUid].reviewCount = 1
        /\ profiles[bookings[b].providerUid].rating = 100 * bookings[b].customerRating


\* C11: in every reachable state each existing provider profile's reviewCount
\* equals the number of that provider's bookings that have customerRating set.
C11_CountMatchesRated ==
    \A p \in Providers :
        profiles[p].exists =>
            profiles[p].reviewCount = Cardinality(RatedBookings(p))

\* C12: a step that changes rating or reviewCount of an existing profile is the
\* commit of a rateProvider transaction on one of that provider's bookings; the
\* dashboard's merge write, updateAvailability and saveProfile leave both
\* fields as they are.
C12_OnlyRateProviderWrites ==
    [][\A p \in Providers :
          (/\ profiles[p].exists
           /\ \/ profiles'[p].rating # profiles[p].rating
              \/ profiles'[p].reviewCount # profiles[p].reviewCount)
          => \E b \in BookingIds :
                BecomesRated(b) /\ bookings[b].providerUid = p]_vars

\* C13: a provider profile with reviewCount 0 has stored rating 0, the profile
\* written at first approval included.
C13_UnreviewedRatingZero ==
    \A p \in Providers :
        (profiles[p].exists /\ profiles[p].reviewCount = 0)
            => profiles[p].rating = 0


\* A step in which the page s issues the addDoc of submitBooking.
IssuesBooking(s) ==
    ~rate[s].wizard.submit.exists /\ rate'[s].wizard.submit.exists

ChangesStatus(b) ==
    bookings[b].exists /\ bookings'[b].status # bookings[b].status

\* C18 as stated: an accept, decline or complete transition changes only the
\* booking's status (and updatedAt); every other stored field stays as it is.
C18_OnlyStatusChanges ==
    [][\A b \in BookingIds :
          ChangesStatus(b) =>
              bookings'[b] = [bookings[b] EXCEPT !.status = bookings'[b].status]]_vars

\* C18 as amended: a transition changes only the booking's status, updatedAt
\* and providerUpdatedBy (set to the dashboard's provider id); every other
\* stored field stays as it is.
C18_TransitionFrame ==
    [][\A b \in BookingIds :
          ChangesStatus(b) =>
              /\ bookings'[b] =
                    [bookings[b] EXCEPT
                        !.status = bookings'[b].status,
                        !.providerUpdatedBy = bookings'[b].providerUpdatedBy]
              /\ \E d \in DashSessions :
                    bookings'[b].providerUpdatedBy = dash[d].providerUid]_vars

\* C18 witness: an accepted booking that still holds what submitBooking wrote.
C18_Witness ==
    \E b \in BookingIds :
        /\ bookings[b].exists
        /\ bookings[b].status = "accepted"
        /\ bookings[b].providerUpdatedBy = "p1"
        /\ bookings[b].address = "1 Main Rd"
        /\ bookings[b].customerUid = "c1"

\* C19: once a booking exists, its customerUid, providerUid, customerName,
\* customerEmail and providerName never change, whatever operation runs.
C19_IdentityFrozen ==
    [][\A b \in BookingIds :
          bookings[b].exists =>
              /\ bookings'[b].exists
              /\ bookings'[b].customerUid = bookings[b].customerUid
              /\ bookings'[b].providerUid = bookings[b].providerUid
              /\ bookings'[b].customerName = bookings[b].customerName
              /\ bookings'[b].customerEmail = bookings[b].customerEmail
              /\ bookings'[b].providerName = bookings[b].providerName]_vars

\* C19 witness: a completed and rated booking still names its provider as at
\* creation although the provider has saved another displayName since.
C19_Witness ==
    \E b \in BookingIds :
        /\ bookings[b].exists
        /\ bookings[b].status = "completed"
        /\ bookings[b].customerRating # 0
        /\ bookings[b].providerName = AppliedName
        /\ profiles[bookings[b].providerUid].displayName # AppliedName


\* Profile p holds the field and it is true.
HoldsTrue(p, field) ==
    /\ field \in DOMAIN profiles[p].flag
    /\ profiles[p].flag[field] = TRUE

\* A step in which the load l of page s answers and leaves the set of loads
\* in flight.
LoadAnswers(s, l) ==
    /\ l \in rate[s].wizard.loads
    /\ l \notin rate'[s].wizard.loads

\* C14: the list a load puts on the page holds exactly the stored profiles
\* that offer the load's service and whose isApproved, isOnline and
\* acceptingBookings are all true; a missing flag counts as false.
C14_ListedExactly ==
    [][\A s \in RateSessions : \A l \in rate[s].wizard.loads :
          LoadAnswers(s, l) =>
              LET listed == rate'[s].wizard.providers
                  wanted == {p \in Providers :
                               /\ profiles[p].exists
                               /\ l.service \in profiles[p].services
                               /\ HoldsTrue(p, "isApproved")
                               /\ HoldsTrue(p, "isOnline")
                               /\ HoldsTrue(p, "acceptingBookings")}
              IN  /\ {listed[i].id : i \in 1..Len(listed)} = wanted
                  /\ Len(listed) = Cardinality(wanted)]_vars

\* C14 witness: the list for Home Cleaning holds p1 only, while p2 offers the
\* service without an isOnline field and p3 offers it but accepts no bookings.
C14_Witness ==
    LET w == rate["r1"].wizard
    IN  /\ w.service = "Home Cleaning"
        /\ w.loads = {}
        /\ w.providersError = NoError
        /\ Len(w.providers) = 1
        /\ w.providers[1].id = "p1"
        /\ profiles["p2"].exists
        /\ "Home Cleaning" \in profiles["p2"].services
        /\ "isOnline" \notin DOMAIN profiles["p2"].flag
        /\ profiles["p3"].exists
        /\ "Home Cleaning" \in profiles["p3"].services
        /\ ~profiles["p3"].flag["acceptingBookings"]

\* C15: the list on the page is ordered by rating descending and, among equal
\* ratings, by reviewCount descending.
C15_Ordered ==
    \A s \in RateSessions :
        LET listed == rate[s].wizard.providers
        IN  \A i \in 1..Len(listed) : \A j \in 1..Len(listed) :
                i < j =>
                    \/ listed[i].rating > listed[j].rating
                    \/ /\ listed[i].rating = listed[j].rating
                       /\ listed[i].reviewCount >= listed[j].reviewCount

\* C15 witness: A(4.8, 10), B(4.8, 40), C(4.9, 1) are listed as C, B, A.
C15_Witness ==
    LET listed == rate["r1"].wizard.providers
    IN  /\ Len(listed) = 3
        /\ <<listed[1].id, listed[2].id, listed[3].id>> = <<"p3", "p2", "p1">>
        /\ <<listed[1].rating, listed[1].reviewCount>> = <<490, 1>>
        /\ <<listed[2].rating, listed[2].reviewCount>> = <<480, 40>>
        /\ <<listed[3].rating, listed[3].reviewCount>> = <<480, 10>>

\* C16: a load for a service that is not in the catalog ends with an error;
\* it never answers with a provider list.
C16_InvalidServiceRejected ==
    [][\A s \in RateSessions : \A l \in rate[s].wizard.loads :
          (l.service \notin services /\ l \notin rate'[s].wizard.loads) =>
              /\ rate'[s].wizard.providersError # NoError
              /\ rate'[s].wizard.providers = <<>>]_vars


\* A step in which the handler of page f loses the race against its timer.
LosesRace(f) ==
    /\ forms[f].racing
    /\ ~forms'[f].racing
    /\ forms'[f].error = TimeoutMessage(f)

\* C20: a handler that loses the race against the 10 s timer reports an error
\* and rolls nothing back: the write stays in flight and can still be applied;
\* what is stored stays stored, and a later read of users/{uid} sees it.
C20_TimeoutKeepsWrite ==
    [][/\ \A f \in FormPages :
            LosesRace(f) =>
                /\ forms'[f].status = "error"
                /\ onboarding' = onboarding
                /\ [page |-> f, id |-> forms[f].writeId] \in onboarding'.flight
       /\ onboarding.stored \subseteq onboarding'.stored
       /\ (forms.apply.route # "open" /\ forms'.apply # forms.apply) =>
             (forms'.apply.role = "provider") = UserDocStored(onboarding)]_vars

\* C20 witness: both pages show their timeout message while the users record
\* and the application they reported as failed are stored, and the application
\* page has read the provider role from that users record.
C20_Witness ==
    /\ forms.signup.error = ErrSetupTimeout
    /\ [page |-> "signup", id |-> forms.signup.writeId] \in onboarding.stored
    /\ forms.apply.role = "provider"
    /\ forms.apply.status = "error"
    /\ forms.apply.error = ErrSubmitTimeout
    /\ [page |-> "apply", id |-> forms.apply.writeId] \in onboarding.stored


\* The reasons whose guard fails on booking document bk read for caller u.
FailingBookingGuards(bk, u) ==
    IF ~bk.exists THEN {ErrBookingNotFound}
    ELSE {e \in {ErrNotAllowed, ErrNotCompleted, ErrAlreadyRated} :
            \/ e = ErrNotAllowed /\ bk.customerUid # u
            \/ e = ErrNotCompleted /\ bk.status # "completed"
            \/ e = ErrAlreadyRated /\ bk.customerRating # 0}

\* C21: each guard of rateProvider ends the call with its own reason in
\* ratingError (booking absent, not the booking's customer, not completed,
\* already rated, profile absent); a call that ends with an error leaves the
\* booking and the profile as they were; ratingLoadingId is cleared when the
\* call ends, with or without error.
C21_GuardReasons ==
    [][\A s \in RateSessions :
          LET c == rate[s].call
              bk == bookings[c.booking]
              failing == FailingBookingGuards(bk, c.caller)
              moved == rate'[s].call.pc # c.pc
          IN  /\ Cardinality({ErrBookingNotFound, ErrNotAllowed, ErrNotCompleted,
                               ErrAlreadyRated, ErrProfileNotFound, NoError}) = 6
              /\ (c.pc = "getBooking" /\ moved /\ failing # {}) =>
                    /\ CallEnds(s)
                    /\ rate'[s].ratingError \in failing
              /\ (c.pc = "getBooking" /\ moved /\ failing = {}) => ~CallEnds(s)
              /\ (c.pc = "getProvider" /\ moved) =>
                    IF profiles[c.providerUid].exists THEN ~CallEnds(s)
                    ELSE CallEnds(s) /\ rate'[s].ratingError = ErrProfileNotFound
              /\ CallEnds(s) =>
                    /\ rate'[s].ratingLoadingId = 0
                    /\ rate'[s].ratingError # NoError =>
                          bookings' = bookings /\ profiles' = profiles]_vars

\* C21 witness: one page shows "Booking not found.", the other "Provider
\* profile not found."; both calls have ended and the store is as it was.
C21_Witness ==
    /\ rate["r1"].ratingError = ErrBookingNotFound
    /\ rate["r2"].ratingError = ErrProfileNotFound
    /\ \A s \in RateSessions : rate[s].ratingLoadingId = 0 /\ rate[s].call = NoCall
    /\ ~bookings[1].exists
    /\ bookings[2].exists /\ bookings[2].customerRating = 0
    /\ ~profiles["p1"].exists


\* C22: a dashboard holds at most one profile listener and one bookings
\* listener; they belong to the signed-in provider, and a dashboard that was
\* torn down holds none.
C22_OneSubscription ==
    \A d \in DashSessions :
        /\ Cardinality(dash[d].profileSubs) <= 1
        /\ Cardinality(dash[d].bookingsSubs) <= 1
        /\ dash[d].profileSubs \subseteq {dash[d].authUser}
        /\ dash[d].bookingsSubs \subseteq {dash[d].authUser}
        /\ dash[d].page = "closed" =>
              dash[d].profileSubs = {} /\ dash[d].bookingsSubs = {}


\* C23: a dashboard whose latest applications snapshot held no approved
\* application is 'blocked' with no profile write under way and no profile or
\* bookings listener; it is 'active' only after a snapshot with an approved
\* application.
C23_ApprovalGate ==
    /\ \A d \in DashSessions :
          dash[d].accessState = "blocked" =>
              /\ dash[d].merges = {}
              /\ dash[d].profileSubs = {}
              /\ dash[d].bookingsSubs = {}


\* Profile p is stored before and after the step and one of acceptingBookings,
\* isOnline, bio and services differs.
ChangesProviderFields(p) ==
    /\ profiles[p].exists
    /\ \/ profiles'[p].flag # profiles[p].flag
       \/ profiles'[p].bio # profiles[p].bio
       \/ profiles'[p].services # profiles[p].services

\* C24: acceptingBookings, isOnline, bio and services of an existing profile
\* change only by updateAvailability (one of the two flags, nothing else) or by
\* saveProfile (displayName, bio and services, nothing else); a dashboard load
\* or an applications snapshot leaves the toggled value in place.
C24_ProviderFieldsFrame ==
    [][\A p \in Providers :
          ChangesProviderFields(p) =>
              \/ \E field \in AvailabilityFields, v \in BOOLEAN :
                    profiles'[p] = [profiles[p] EXCEPT !.flag[field] = v]
              \/ profiles'[p] = [profiles[p] EXCEPT
                                    !.displayName = profiles'[p].displayName,
                                    !.bio = profiles'[p].bio,
                                    !.services = profiles'[p].services]]_vars


\* What the wizard w must hold before its step may be left forwards.
StepComplete(w) ==
    /\ w.step = 1 => w.service # ""
    /\ w.step = 2 => w.selectedProviderId # ""
    /\ w.step = 3 => w.date # "" /\ w.time # ""
    /\ w.step = 4 => w.address # ""

\* C25: the wizard's step moves by exactly one, forwards only when the current
\* step is complete (service, provider, date and time, address) and never past
\* 5, backwards never below 1; a step change leaves every form field as it is.
C25_StepsByOne ==
    [][\A s \in RateSessions :
          LET w == rate[s].wizard
              v == rate'[s].wizard
          IN  v.step # w.step =>
                /\ v.step \in 1..5
                /\ v.step = w.step + 1 \/ v.step = w.step - 1
                /\ v.step = w.step + 1 => StepComplete(w)
                /\ v = [w EXCEPT !.step = v.step]]_vars

\* C25 witness: a wizard that was walked forward to step 5 and back to step 4
\* with its form still filled in.
C25_Witness ==
    LET w == rate["r1"].wizard
    IN  /\ w.step = 4
        /\ w.service # "" /\ w.selectedProviderId # ""
        /\ w.date # "" /\ w.time # "" /\ w.address # ""
        /\ w.submitStatus = "error"


\* C26: a wizard at step 5 holds a service, a date, a time, an address and a
\* selected provider that is in the providers list on the page.
C26_ReadyAtStepFive ==
    \A s \in RateSessions :
        LET w == rate[s].wizard
        IN  w.step = 5 =>
              /\ w.service # "" /\ w.date # "" /\ w.time # "" /\ w.address # ""
              /\ w.selectedProviderId # ""
              /\ \E i \in 1..Len(w.providers) :
                    w.providers[i].id = w.selectedProviderId


\* C27: once no load is in flight, the page of a wizard with a service shows
\* the discovery result of that service, the selected provider is in that list
\* (none when the list is empty), and no further query is issued.
C27_SettledList ==
    \A s \in RateSessions :
        LET w == rate[s].wizard
        IN  (w.service # "" /\ w.loads = {}) =>
              /\ w.providers = Discovery(profiles, w.service)
              /\ IF w.providers = <<>> THEN w.selectedProviderId = ""
                 ELSE w.selectedProviderId \in EntryIds(w.providers)


\* C28: a wizard issues a booking write only from submitStatus idle or error;
\* while the write is pending the status is loading and no second write is
\* issued; the write ends in success or error; success is final, so a wizard
\* stores at most one booking.
C28_OneWritePerSubmission ==
    [][\A s \in RateSessions :
          LET w == rate[s].wizard
              v == rate'[s].wizard
          IN  /\ IssuesBooking(s) =>
                    /\ w.submitStatus \in {"idle", "error"}
                    /\ v.submitStatus = "loading"
              /\ w.submit.exists <=> w.submitStatus = "loading"
              /\ (w.submitStatus = "loading" /\ v.submitStatus # "loading") =>
                    /\ v.submitStatus \in {"success", "error"}
                    /\ ~v.submit.exists
              /\ w.submitStatus = "success" =>
                    /\ v.submitStatus = "success"
                    /\ bookings' = bookings]_vars

\* C28 witness: the wizard has stored its booking and, with the customer still
\* signed in at step 5 and the store not full, issues nothing further.
C28_Witness ==
    LET w == rate["r1"].wizard
    IN  /\ w.submitStatus = "success"
        /\ w.step = 5
        /\ rate["r1"].sessionUser = "c1" /\ rate["r1"].sessionRole = "customer"
        /\ w.selectedProviderId \in EntryIds(w.providers)
        /\ Cardinality({b \in BookingIds : bookings[b].exists}) = 1


\* C30: whenever a booking page holds sessionRole 'customer', a user is signed
\* in on it and that user's users record has role customer; every stored
\* booking has a customerUid whose users record has role customer.
C30_RoleBelongsToUser ==
    /\ \A s \in RateSessions :
          rate[s].sessionRole = "customer" =>
              /\ rate[s].sessionUser # NoUser
              /\ UserRole(rate[s].sessionUser) = "customer"
    /\ \A b \in BookingIds :
          bookings[b].exists => UserRole(bookings[b].customerUid) = "customer"


\* C29: once a users record has a role, no step of a sign-up or sign-in flow
\* changes that role.
C29_RoleKept ==
    [][\A a \in SignUpAccounts :
          onboarding.users[a] # "none" =>
              onboarding'.users[a] = onboarding.users[a]]_vars

====
